---- MODULE Spec2Model ----
(***************************************************************************)
(* Model of script.py: the symptom scoring and ranking pipeline            *)
(* (calculate_similarity, calculate_weighted_similarity,                   *)
(* bayesian_probability, diagnose, get_symptom_weights).                   *)
(*                                                                         *)
(* Python floats are binary floating point numbers: every arithmetic       *)
(* operation returns the representable number nearest to the exact result  *)
(* (ties to the even significand).  The model keeps that: a float is a     *)
(* record [m, e] of value m * 2^e whose significand m has Prec bits, and   *)
(* every operation rounds.  A double has 53 bits; Prec is the bounded      *)
(* stand-in.  Exponents are unbounded here: no value of the pipeline comes *)
(* near the overflow or underflow range of a double.                       *)
(*                                                                         *)
(* A Python set is iterated in an order the language leaves open (it       *)
(* depends on the string hashes and on the insertion history), so every    *)
(* loop over a set takes its elements in a nondeterministically chosen     *)
(* order.                                                                  *)
(***************************************************************************)
EXTENDS Integers, Sequences, FiniteSets, TLC

VARIABLES
    pc,                   \* position of the running call
    user_symptoms,        \* list of symptom tokens
    disease_symptoms,     \* list of symptom tokens (one condition's list)
    disease_data,         \* the condition table: a dict in insertion order
    symptom_weights,      \* dict symptom -> float
    prior_probabilities,  \* dict label -> float
    idx,                  \* loop position of the running call
    likelihoods,          \* diagnose: dict label -> float
    total_evidence,       \* diagnose: float accumulator
    results,              \* diagnose: list of <<label, posterior>>
    all_symptoms,         \* get_symptom_weights: list
    symptom_counts,       \* get_symptom_weights: dict in insertion order
    weights_out,          \* get_symptom_weights: the dict being returned
    calls                 \* the calls of the two similarity functions made so far

vars == <<pc, user_symptoms, disease_symptoms, disease_data, symptom_weights,
          prior_probabilities, idx, likelihoods, total_evidence, results,
          all_symptoms, symptom_counts, weights_out, calls>>

-----------------------------------------------------------------------------
(* Bounds *)

Prec == 3          \* bits of a float's significand
MaxLen == 2        \* longest symptom list
MaxConds == 2      \* most conditions in a table

Symptoms == {"x", "y", "z"}
LabelNames == <<"A", "B", "C", "D">>

-----------------------------------------------------------------------------
(* Floating point *)

RECURSIVE Pow2(_)
Pow2(k) == IF k <= 0 THEN 1 ELSE 2 * Pow2(k - 1)

Zero == [m |-> 0, e |-> 0]

Neg(a) == [m |-> 0 - a.m, e |-> a.e]

\* The float nearest to (n / d) * 2^e, for n > 0 and d > 0: scale until the
\* quotient has Prec bits, then round half to even.
RECURSIVE FRoundPos(_, _, _)
FRoundPos(n, d, e) ==
    IF n >= d * Pow2(Prec) THEN FRoundPos(n, 2 * d, e + 1)
    ELSE IF n < d * Pow2(Prec - 1) THEN FRoundPos(2 * n, d, e - 1)
    ELSE LET q == n \div d
             r == n % d
             up == 2 * r > d \/ (2 * r = d /\ q % 2 = 1)
             q2 == IF up THEN q + 1 ELSE q
         IN  IF q2 = Pow2(Prec) THEN [m |-> Pow2(Prec - 1), e |-> e + 1]
             ELSE [m |-> q2, e |-> e]

\* The float nearest to (n / d) * 2^e, d > 0.
FRound(n, d, e) ==
    IF n = 0 THEN Zero
    ELSE IF n > 0 THEN FRoundPos(n, d, e)
    ELSE Neg(FRoundPos(0 - n, d, e))

\* int -> float
FromInt(k) == FRound(k, 1, 0)

\* a literal n/d of the source text
Lit(n, d) == FRound(n, d, 0)

Min(a, b) == IF a < b THEN a ELSE b

\* a + b
FAdd(a, b) ==
    IF a.m = 0 THEN b
    ELSE IF b.m = 0 THEN a
    ELSE IF a.e - b.e > Prec + 2 THEN a
    ELSE IF b.e - a.e > Prec + 2 THEN b
    ELSE LET lo == Min(a.e, b.e)
         IN  FRound(a.m * Pow2(a.e - lo) + b.m * Pow2(b.e - lo), 1, lo)

\* a * b
FMul(a, b) == FRound(a.m * b.m, 1, a.e + b.e)

\* what a division by zero leaves in place of a value: the call raises
ZeroDivisionError == [m |-> 0, e |-> 0, raised |-> TRUE]

Raised(v) == "raised" \in DOMAIN v

\* a / b
FDiv(a, b) ==
    IF b.m = 0 THEN ZeroDivisionError
    ELSE IF b.m > 0 THEN FRound(a.m, b.m, a.e - b.e)
    ELSE FRound(0 - a.m, 0 - b.m, a.e - b.e)

\* a < b
FLess(a, b) ==
    IF a.m > 0 /\ b.m > 0 THEN a.e < b.e \/ (a.e = b.e /\ a.m < b.m)
    ELSE IF a.m < 0 /\ b.m < 0 THEN b.e < a.e \/ (a.e = b.e /\ a.m < b.m)
    ELSE a.m < b.m

\* floor of the square root of a natural number
ISqrt(n) == CHOOSE s \in 0..Pow2(2 * Prec) : s * s <= n /\ (s + 1) * (s + 1) > n

\* math.sqrt(a), a > 0: the float nearest to the square root.  The significand
\* is scaled to an even exponent and by 4^Prec, so that the integer root has
\* more than Prec bits; an inexact root counts as just above the integer.
FSqrt(a) ==
    LET odd == a.e % 2 = 1
        m2 == IF odd THEN 2 * a.m ELSE a.m
        e2 == IF odd THEN a.e - 1 ELSE a.e
        N == m2 * Pow2(2 * Prec)
        s == ISqrt(N)
        sticky == IF s * s = N THEN 0 ELSE 1
    IN  FRound(2 * s + sticky, 2, (e2 \div 2) - Prec)

-----------------------------------------------------------------------------
(* Lists, sets and dicts *)

\* set(lst)
SetOf(lst) == {lst[i] : i \in DOMAIN lst}

\* all lists over S of length at most n
ListsUpTo(S, n) == UNION {[1..k -> S] : k \in 0..n}

\* the orders in which a loop can take the elements of set S
Orders(S) ==
    {o \in [1..Cardinality(S) -> S] : \A i, j \in DOMAIN o : i # j => o[i] # o[j]}

\* d.get(key, default), for a dict held as a function on its keys
Get(d, key, default) == IF key \in DOMAIN d THEN d[key] ELSE default

Restrict(d, keys) == [k \in keys |-> d[k]]

Reverse(s) == [i \in 1..Len(s) |-> s[Len(s) + 1 - i]]

-----------------------------------------------------------------------------
(* calculate_similarity, calculate_weighted_similarity, bayesian_probability *)

\* symptom_weights.get(symptom, 1.0); the variant is another default
DefaultWeightHalf == Lit(1, 2)
DefaultWeight == Lit(1, 1)

\* prior_probabilities.get(disease, 0.01); the variant is another default
DefaultPriorTenth == Lit(1, 10)
DefaultPrior == Lit(1, 100)

\* variant of calculate_similarity that divides by the size of user_set
calculate_similarity_over_user(user, disease) ==
    LET user_set == SetOf(user)
        disease_set == SetOf(disease)
        intersection == Cardinality(user_set \cap disease_set)
        union == Cardinality(user_set \cup disease_set)
    IN  IF union = 0 THEN Zero ELSE FRound(intersection, Cardinality(user_set), 0)

calculate_similarity(user, disease) ==
    LET user_set == SetOf(user)
        disease_set == SetOf(disease)
        intersection == Cardinality(user_set \cap disease_set)
        union == Cardinality(user_set \cup disease_set)
    IN  IF union = 0 THEN Zero ELSE FRound(intersection, union, 0)

\* variant of SumWeights that adds nothing for a symptom without an entry
RECURSIVE SumWeightsOfKeys(_, _, _)
SumWeightsOfKeys(order, weights, acc) ==
    IF order = <<>> THEN acc
    ELSE SumWeightsOfKeys(Tail(order), weights,
                          FAdd(acc, Get(weights, Head(order), Zero)))

\* acc += weights.get(symptom, 1.0) for the symptoms of order, in that order
RECURSIVE SumWeights(_, _, _)
SumWeights(order, weights, acc) ==
    IF order = <<>> THEN acc
    ELSE SumWeights(Tail(order), weights,
                    FAdd(acc, Get(weights, Head(order), DefaultWeight)))

\* the first loop's total, the intersection taken in order oi
weighted_intersection(weights, oi) == SumWeights(oi, weights, Zero)

\* the second loop's total, the union taken in order ou
weighted_union(weights, ou) == SumWeights(ou, weights, Zero)

\* the value returned when the two loops take the sets in orders oi and ou
calculate_weighted_similarity(weights, oi, ou) ==
    LET wi == weighted_intersection(weights, oi)
        wu == weighted_union(weights, ou)
    IN  IF wu = Zero THEN Zero ELSE FDiv(wi, wu)

\* the orders the first and the second loop can take for two lists
InterOrders(user, disease) == Orders(SetOf(user) \cap SetOf(disease))
UnionOrders(user, disease) == Orders(SetOf(user) \cup SetOf(disease))

\* variant of bayesian_probability without the test of evidence
bayesian_probability_unguarded(prior_probability, likelihood, evidence) ==
    FDiv(FMul(likelihood, prior_probability), evidence)

bayesian_probability(prior_probability, likelihood, evidence) ==
    IF evidence = Zero THEN Zero
    ELSE FDiv(FMul(likelihood, prior_probability), evidence)

-----------------------------------------------------------------------------
(* Inputs *)

\* what a user can type: any list, repetitions included
SymptomLists == ListsUpTo(Symptoms, MaxLen)

\* a condition's list names each of its symptoms (here at most two) once, in
\* any order
ConditionLists == UNION {Orders(S) : S \in {T \in SUBSET Symptoms : Cardinality(T) < 3}}

\* Weight dicts: keys may be missing, weights may be 1.0, other positive
\* numbers, zero or negative (the functions take any number).
WeightMaps ==
    {Restrict(w, keys) :
        w \in {[x |-> Lit(1, 1), y |-> Lit(1, 1), z |-> Lit(3, 4)],
               [x |-> Lit(1, 1), y |-> Lit(5, 8), z |-> Lit(3, 4)],
               [x |-> Zero, y |-> Lit(1, 1), z |-> Lit(-1, 1)]},
        keys \in {{}, {"x", "y"}, {"y", "z"}, {"x", "y", "z"}}}

-----------------------------------------------------------------------------
(* The two similarity functions, called twice: on two lists, and again    *)
(* after the caller has rearranged a list or swapped the arguments.        *)

NoDiagnose ==
    /\ disease_data = <<>> /\ prior_probabilities = <<>> /\ idx = 0
    /\ likelihoods = <<>> /\ total_evidence = Zero /\ results = <<>>
NoWeights == all_symptoms = <<>> /\ symptom_counts = <<>> /\ weights_out = <<>>

InitSim ==
    /\ pc = "first"
    /\ user_symptoms \in SymptomLists
    /\ disease_symptoms \in ConditionLists
    /\ symptom_weights \in WeightMaps
    /\ calls = <<>>
    /\ NoDiagnose /\ NoWeights

keptSim == <<disease_data, symptom_weights, prior_probabilities, idx, likelihoods,
             total_evidence, results, all_symptoms, symptom_counts, weights_out>>

CallSimilarity ==
    /\ pc \in {"first", "second"}
    /\ calls' = Append(calls, [fn |-> "similarity", a |-> user_symptoms,
                               b |-> disease_symptoms, guard |-> FALSE,
                               ret |-> calculate_similarity(user_symptoms, disease_symptoms)])
    /\ pc' = IF pc = "first" THEN "first_weighted" ELSE "second_weighted"
    /\ UNCHANGED <<user_symptoms, disease_symptoms, keptSim>>

CallWeightedSimilarity ==
    /\ pc \in {"first_weighted", "second_weighted"}
    /\ \E out \in {[guard |-> weighted_union(symptom_weights, ou) = Zero,
                     ret |-> calculate_weighted_similarity(symptom_weights, oi, ou)] :
                        oi \in InterOrders(user_symptoms, disease_symptoms),
                        ou \in UnionOrders(user_symptoms, disease_symptoms)} :
          calls' = Append(calls,
              [fn |-> "weighted", a |-> user_symptoms, b |-> disease_symptoms,
               guard |-> out.guard, ret |-> out.ret])
    /\ pc' = IF pc = "first_weighted" THEN "change" ELSE "done"
    /\ UNCHANGED <<user_symptoms, disease_symptoms, keptSim>>

\* the caller passes the same symptoms in another order or with repetitions
Rearrange ==
    /\ pc = "change"
    /\ \/ \E l \in SymptomLists :
             /\ SetOf(l) = SetOf(user_symptoms) /\ l # user_symptoms
             /\ user_symptoms' = l /\ UNCHANGED disease_symptoms
       \/ \E l \in Orders(SetOf(disease_symptoms)) :
             /\ l # disease_symptoms
             /\ disease_symptoms' = l /\ UNCHANGED user_symptoms
    /\ pc' = "second"
    /\ UNCHANGED <<calls, keptSim>>

\* the caller swaps the two arguments
SwapArguments ==
    /\ pc = "change"
    /\ user_symptoms' = disease_symptoms
    /\ disease_symptoms' = user_symptoms
    /\ pc' = "second"
    /\ UNCHANGED <<calls, keptSim>>

NextSim == CallSimilarity \/ CallWeightedSimilarity \/ Rearrange \/ SwapArguments

SpecSim == InitSim /\ [][NextSim]_vars

-----------------------------------------------------------------------------
(* diagnose *)

Labels == {LabelNames[i] : i \in 1..MaxConds}

\* The condition tables: up to MaxConds conditions, in the order of LabelNames
\* or in the opposite order, each with one of a few symptom lists.
TableLists == {<<>>, <<"x">>, <<"x", "y">>, <<"z", "y">>}
LabelOrders ==
    UNION {{[i \in 1..n |-> LabelNames[i]], [i \in 1..n |-> LabelNames[MaxConds + 1 - i]]} :
              n \in 0..MaxConds}
Tables ==
    UNION {{[i \in DOMAIN ls |-> [label |-> ls[i], symptoms |-> sy[i]]] :
               sy \in [DOMAIN ls -> TableLists]} : ls \in LabelOrders}

\* the user's symptoms, each named once
Rank(s) == CHOOSE i \in 1..3 : <<"x", "y", "z">>[i] = s
UserLists == {l \in SymptomLists : \A i, j \in DOMAIN l : i < j => Rank(l[i]) < Rank(l[j])}

DiagnoseWeightMaps ==
    {<<>>,
     [x |-> Lit(1, 1), y |-> Lit(1, 1)],
     [y |-> Lit(5, 8), z |-> Lit(3, 4)],
     [x |-> Lit(1, 1), y |-> Lit(5, 8), z |-> Lit(3, 4)],
     [x |-> Zero, y |-> Lit(1, 1), z |-> Lit(-1, 1)]}

\* Prior dicts: no entry at all, the same prior for every label, an entry for
\* the first label alone, a different prior for each label.
LabelPrior == [A |-> Lit(1, 10), B |-> Lit(3, 100), C |-> Lit(1, 16), D |-> Lit(1, 1000)]
PriorMaps ==
    {<<>>,
     [l \in Labels |-> Lit(1, 10)],
     [l \in {"A"} |-> Lit(3, 100)],
     [l \in Labels |-> LabelPrior[l]]}

\* list.sort(key=..., reverse=False) on <<label, posterior>> pairs: a stable
\* sort, an item goes behind the items whose key is not greater
RECURSIVE InsertAsc(_, _)
InsertAsc(sorted, item) ==
    IF sorted = <<>> THEN <<item>>
    ELSE LET last == sorted[Len(sorted)]
         IN  IF FLess(item[2], last[2])
             THEN Append(InsertAsc(SubSeq(sorted, 1, Len(sorted) - 1), item), last)
             ELSE Append(sorted, item)

RECURSIVE SortAsc(_)
SortAsc(s) ==
    IF s = <<>> THEN <<>>
    ELSE InsertAsc(SortAsc(SubSeq(s, 1, Len(s) - 1)), s[Len(s)])

\* variant of list_sort_reverse that sorts ascending and reverses the outcome
SortReverseNoStability(s) == Reverse(SortAsc(s))

\* list.sort(key=..., reverse=True): the list is reversed, sorted with the
\* stable ascending sort, and reversed again
list_sort_reverse(s) == Reverse(SortAsc(Reverse(s)))

\* variant of results_append that leaves out a posterior of 0.0
results_append_nonzero(res, disease, posterior) ==
    IF posterior = Zero THEN res ELSE Append(res, <<disease, posterior>>)

\* results.append((disease, posterior))
results_append(res, disease, posterior) == Append(res, <<disease, posterior>>)

Init ==
    /\ pc = "loop1"
    /\ user_symptoms \in UserLists
    /\ disease_data \in Tables
    /\ symptom_weights \in DiagnoseWeightMaps
    /\ prior_probabilities \in PriorMaps
    /\ idx = 1
    /\ likelihoods = <<>>
    /\ total_evidence = Zero
    /\ results = <<>>
    /\ disease_symptoms = <<>> /\ calls = <<>>
    /\ NoWeights

inputs == <<user_symptoms, disease_data, symptom_weights, prior_probabilities>>
keptDiagnose == <<disease_symptoms, all_symptoms, symptom_counts, weights_out, calls>>

\* one pass of the first loop: the condition's likelihood, added to the total
Loop1 ==
    /\ pc = "loop1" /\ idx <= Len(disease_data)
    /\ LET disease == disease_data[idx].label
           symptoms == disease_data[idx].symptoms
       IN  \E l \in {calculate_weighted_similarity(symptom_weights, oi, ou) :
                         oi \in InterOrders(user_symptoms, symptoms),
                         ou \in UnionOrders(user_symptoms, symptoms)} :
              IF Raised(l)
              THEN pc' = "raised" /\ UNCHANGED <<idx, likelihoods, total_evidence>>
              ELSE /\ likelihoods' = [d \in DOMAIN likelihoods \cup {disease} |->
                                         IF d = disease THEN l ELSE likelihoods[d]]
                   /\ total_evidence' = FAdd(total_evidence, l)
                   /\ idx' = idx + 1
                   /\ pc' = pc
    /\ UNCHANGED <<results, inputs, keptDiagnose>>

\* the first loop is over, the second starts
Loop1End ==
    /\ pc = "loop1" /\ idx > Len(disease_data)
    /\ pc' = "loop2" /\ idx' = 1
    /\ UNCHANGED <<likelihoods, total_evidence, results, inputs, keptDiagnose>>

\* one pass of the second loop: the condition's posterior, appended
Loop2 ==
    /\ pc = "loop2" /\ idx <= Len(disease_data)
    /\ LET disease == disease_data[idx].label
           prior == Get(prior_probabilities, disease, DefaultPrior)
           posterior == bayesian_probability(prior, likelihoods[disease], total_evidence)
       IN  IF Raised(posterior)
           THEN pc' = "raised" /\ UNCHANGED <<idx, results>>
           ELSE /\ results' = results_append(results, disease, posterior)
                /\ idx' = idx + 1
                /\ pc' = pc
    /\ UNCHANGED <<likelihoods, total_evidence, inputs, keptDiagnose>>

\* the second loop is over: sort and return
SortAndReturn ==
    /\ pc = "loop2" /\ idx > Len(disease_data)
    /\ results' = list_sort_reverse(results)
    /\ pc' = "done"
    /\ UNCHANGED <<idx, likelihoods, total_evidence, inputs, keptDiagnose>>

Next == Loop1 \/ Loop1End \/ Loop2 \/ SortAndReturn

Spec == Init /\ [][Next]_vars

-----------------------------------------------------------------------------
(* get_symptom_weights *)

\* The condition tables the weights are derived from: lists over two symptoms,
\* which may repeat a symptom.
WeightTables ==
    UNION {{[i \in 1..n |-> [label |-> LabelNames[i], symptoms |-> sy[i]]] :
               sy \in [1..n -> ListsUpTo({"x", "y"}, MaxLen)]} : n \in 0..MaxConds}

\* the keys of symptom_counts in insertion order: the first occurrences
RECURSIVE KeysInOrder(_)
KeysInOrder(lst) ==
    IF lst = <<>> THEN <<>>
    ELSE LET before == KeysInOrder(SubSeq(lst, 1, Len(lst) - 1))
             s == lst[Len(lst)]
         IN  IF s \in SetOf(before) THEN before ELSE Append(before, s)

InitWeights ==
    /\ pc = "extend"
    /\ disease_data \in WeightTables
    /\ idx = 1
    /\ all_symptoms = <<>>
    /\ symptom_counts = <<>>
    /\ weights_out = <<>>
    /\ user_symptoms = <<>> /\ disease_symptoms = <<>> /\ symptom_weights = <<>>
    /\ prior_probabilities = <<>> /\ likelihoods = <<>> /\ total_evidence = Zero
    /\ results = <<>> /\ calls = <<>>

keptWeights == <<user_symptoms, disease_symptoms, disease_data, symptom_weights,
                 prior_probabilities, likelihoods, total_evidence, results, calls>>

\* all_symptoms.extend(symptoms), for one condition
Extend ==
    /\ pc = "extend" /\ idx <= Len(disease_data)
    /\ all_symptoms' = all_symptoms \o disease_data[idx].symptoms
    /\ idx' = idx + 1
    /\ UNCHANGED <<pc, symptom_counts, weights_out, keptWeights>>

ExtendEnd ==
    /\ pc = "extend" /\ idx > Len(disease_data)
    /\ pc' = "count" /\ idx' = 1
    /\ UNCHANGED <<all_symptoms, symptom_counts, weights_out, keptWeights>>

\* symptom_counts[symptom] = symptom_counts.get(symptom, 0) + 1
count_up(counts, symptom) ==
    [k \in DOMAIN counts \cup {symptom} |->
        IF k = symptom THEN Get(counts, symptom, 0) + 1 ELSE counts[k]]

Count ==
    /\ pc = "count" /\ idx <= Len(all_symptoms)
    /\ symptom_counts' = count_up(symptom_counts, all_symptoms[idx])
    /\ idx' = idx + 1
    /\ UNCHANGED <<pc, all_symptoms, weights_out, keptWeights>>

CountEnd ==
    /\ pc = "count" /\ idx > Len(all_symptoms)
    /\ pc' = "weigh" /\ idx' = 1
    /\ UNCHANGED <<all_symptoms, symptom_counts, weights_out, keptWeights>>

\* 1.0 / math.sqrt(count)
weight_of(count) == FDiv(Lit(1, 1), FSqrt(FromInt(count)))

Weigh ==
    /\ pc = "weigh" /\ idx <= Len(KeysInOrder(all_symptoms))
    /\ LET symptom == KeysInOrder(all_symptoms)[idx]
       IN  weights_out' = [k \in DOMAIN weights_out \cup {symptom} |->
                              IF k = symptom THEN weight_of(symptom_counts[symptom])
                              ELSE weights_out[k]]
    /\ idx' = idx + 1
    /\ UNCHANGED <<pc, all_symptoms, symptom_counts, keptWeights>>

ReturnWeights ==
    /\ pc = "weigh" /\ idx > Len(KeysInOrder(all_symptoms))
    /\ pc' = "done"
    /\ UNCHANGED <<idx, all_symptoms, symptom_counts, weights_out, keptWeights>>

NextWeights == Extend \/ ExtendEnd \/ Count \/ CountEnd \/ Weigh \/ ReturnWeights

SpecWeights == InitWeights /\ [][NextWeights]_vars

-----------------------------------------------------------------------------
(* Claims about the two similarity functions (SpecSim) *)

SimCalls == {i \in DOMAIN calls : calls[i].fn = "similarity"}
WeightedCalls == {i \in DOMAIN calls : calls[i].fn = "weighted"}
Used(c) == SetOf(c.a) \cup SetOf(c.b)

\* every symptom of the call has weight 1.0 or no entry in the weight dict
AllOnes(c) ==
    \A s \in Used(c) : s \in DOMAIN symptom_weights => symptom_weights[s] = Lit(1, 1)

\* C4: with every symptom's weight 1.0 or missing from the dict,
\* calculate_weighted_similarity(A, B, weights) returns what
\* calculate_similarity(A, B) returns, 0.0 for two empty lists included.
\* (The sums of 1.0 are exact as long as the sets have fewer than 2^Prec
\* symptoms.)
C4_WeightedReducesToJaccard ==
    \A i \in SimCalls, j \in WeightedCalls :
        (calls[i].a = calls[j].a /\ calls[i].b = calls[j].b /\ AllOnes(calls[j]))
            => calls[j].ret = calls[i].ret

C4_Witness ==
    \E i \in SimCalls, j \in WeightedCalls :
        /\ calls[i].a = calls[j].a /\ calls[i].b = calls[j].b /\ AllOnes(calls[j])
        /\ Cardinality(Used(calls[j])) = 3
        /\ Cardinality(SetOf(calls[j].a) \cap SetOf(calls[j].b)) = 1
        /\ \E s, t \in Used(calls[j]) :
              s \in DOMAIN symptom_weights /\ t \notin DOMAIN symptom_weights
        /\ calls[j].ret = Lit(1, 3)

\* C5 as stated: for every weight dict, the guard of
\* calculate_weighted_similarity (weighted_union == 0, return 0.0) is taken only
\* when both lists are empty.
C5_GuardOnlyWhenBothEmpty ==
    \A j \in WeightedCalls : calls[j].guard => Used(calls[j]) = {}

AllPositive == \A s \in DOMAIN symptom_weights : symptom_weights[s].m > 0

\* C5 amended: for every weight dict whose weights are all positive, the guard
\* is taken only when both lists are empty, and with a non-empty list the
\* function returns weighted_intersection / weighted_union.
C5_GuardOnlyWhenBothEmptyPositive ==
    AllPositive =>
        \A j \in WeightedCalls :
            /\ calls[j].guard <=> Used(calls[j]) = {}
            /\ calls[j].guard => calls[j].ret = Zero
            /\ Used(calls[j]) # {} =>
                  \E oi \in InterOrders(calls[j].a, calls[j].b),
                     ou \in UnionOrders(calls[j].a, calls[j].b) :
                        /\ weighted_union(symptom_weights, ou).m > 0
                        /\ calls[j].ret = FDiv(weighted_intersection(symptom_weights, oi),
                                               weighted_union(symptom_weights, ou))

C5_Witness ==
    /\ AllPositive /\ DOMAIN symptom_weights = Symptoms
    /\ \E j \in WeightedCalls :
          calls[j].guard /\ Used(calls[j]) = {} /\ calls[j].ret = Zero

\* C8: the results of calculate_similarity and calculate_weighted_similarity
\* depend only on the sets of symptoms in the two lists: a call on rearranged
\* lists (another order, repeated symptoms) returns the same value.
C8_DependsOnlyOnSets ==
    \A i, j \in DOMAIN calls :
        (/\ calls[i].fn = calls[j].fn
         /\ SetOf(calls[i].a) = SetOf(calls[j].a)
         /\ SetOf(calls[i].b) = SetOf(calls[j].b))
            => calls[i].ret = calls[j].ret

\* C9: calculate_similarity(A, B) = calculate_similarity(B, A), empty lists
\* included.
C9_SimilaritySymmetric ==
    \A i, j \in SimCalls :
        (calls[i].a = calls[j].b /\ calls[i].b = calls[j].a)
            => calls[i].ret = calls[j].ret

C9_Witness ==
    \E i, j \in SimCalls :
        /\ i # j /\ calls[i].a = calls[j].b /\ calls[i].b = calls[j].a
        /\ Cardinality(SetOf(calls[i].a)) = 2 /\ Cardinality(SetOf(calls[i].b)) = 1
        /\ calls[i].ret = Lit(1, 2)

-----------------------------------------------------------------------------
(* Claims about diagnose (Spec) *)

NConds == Len(disease_data)
TablePos(label) == CHOOSE k \in DOMAIN disease_data : disease_data[k].label = label
TableLabels == {disease_data[k].label : k \in DOMAIN disease_data}

\* C1: the ranking diagnose returns is sorted by posterior, non-increasing, and
\* two conditions with equal posteriors keep the order they have in the table.
C1_SortedDescendingStable ==
    pc = "done" =>
        \A i, j \in DOMAIN results :
            i < j =>
                /\ ~FLess(results[i][2], results[j][2])
                /\ results[i][2] = results[j][2]
                      => TablePos(results[i][1]) < TablePos(results[j][1])

\* a tie of two non-zero posteriors in a table whose labels run backwards
C1_Witness ==
    /\ pc = "done" /\ Len(results) = 2
    /\ results[1][2] = results[2][2] /\ results[1][2] # Zero
    /\ results[1][1] = "B" /\ results[2][1] = "A"

\* the values calculate_weighted_similarity can return for a condition
PossibleSimilarities(k) ==
    {calculate_weighted_similarity(symptom_weights, oi, ou) :
        oi \in InterOrders(user_symptoms, disease_data[k].symptoms),
        ou \in UnionOrders(user_symptoms, disease_data[k].symptoms)}

\* the likelihoods of the first n conditions, added up in table order
RECURSIVE LikelihoodSum(_)
LikelihoodSum(n) ==
    IF n = 0 THEN Zero
    ELSE FAdd(LikelihoodSum(n - 1), likelihoods[disease_data[n].label])

PriorUsed(label) ==
    IF label \in DOMAIN prior_probabilities THEN prior_probabilities[label]
    ELSE Lit(1, 100)

\* C3: the posterior paired with a condition's label is (L * P) / E: L the
\* condition's own weighted similarity to the user's symptoms, P its prior or
\* 0.01 without an entry, E the sum of all conditions' similarities; and it is
\* 0.0 when E is 0.
C3_PosteriorFormula ==
    pc = "done" =>
        /\ DOMAIN likelihoods = TableLabels
        /\ \A k \in DOMAIN disease_data :
              likelihoods[disease_data[k].label] \in PossibleSimilarities(k)
        /\ \A i \in DOMAIN results :
              LET label == results[i][1]
                  E == LikelihoodSum(NConds)
              IN  /\ label \in TableLabels
                  /\ results[i][2] =
                        IF E = Zero THEN Zero
                        ELSE FDiv(FMul(likelihoods[label], PriorUsed(label)), E)

\* two conditions, one with a prior entry and one without, both posteriors
\* non-zero
C3_Witness ==
    /\ pc = "done" /\ Len(results) = 2
    /\ results[1][2] # Zero /\ results[2][2] # Zero
    /\ \E i, j \in DOMAIN results :
          /\ results[i][1] \in DOMAIN prior_probabilities
          /\ results[j][1] \notin DOMAIN prior_probabilities

\* C6: with an empty user list diagnose raises nothing, whatever the table,
\* the weights and the priors: every similarity is 0, total_evidence is 0,
\* every posterior is 0.0 and the ranking lists the conditions in table order.
C6_EmptyUserList ==
    user_symptoms = <<>> =>
        /\ pc # "raised"
        /\ \A d \in DOMAIN likelihoods : likelihoods[d] = Zero
        /\ total_evidence = Zero
        /\ pc = "done" =>
              results = [k \in DOMAIN disease_data |-> <<disease_data[k].label, Zero>>]

\* an empty user list, two conditions of which one lists nothing, weights given
C6_Witness ==
    /\ user_symptoms = <<>> /\ pc = "done" /\ Len(results) = 2
    /\ \E k \in DOMAIN disease_data : disease_data[k].symptoms = <<>>
    /\ \E k \in DOMAIN disease_data : disease_data[k].symptoms # <<>>
    /\ DOMAIN symptom_weights = Symptoms
    /\ DOMAIN prior_probabilities # {}

\* C7: the ranking holds exactly one pair for each label of the table and no
\* other pair; an empty table gives an empty ranking and no error.
C7_OnePairPerCondition ==
    /\ pc = "done" =>
          /\ Len(results) = NConds
          /\ \A i \in DOMAIN results : results[i][1] \in TableLabels
          /\ \A k \in DOMAIN disease_data :
                Cardinality({i \in DOMAIN results : results[i][1] = disease_data[k].label}) = 1
    /\ disease_data = <<>> => pc # "raised" /\ results = <<>>

\* two conditions, ranked in the opposite of their table order, one posterior 0
C7_Witness ==
    /\ pc = "done" /\ Len(results) = 2
    /\ results[1][1] = disease_data[2].label
    /\ results[2][1] = disease_data[1].label
    /\ results[2][2] = Zero /\ results[1][2] # Zero

\* Exact arithmetic on float values: v * 2^-lo as an integer, lo at most v's
\* exponent.
Exps == {results[i][2].e : i \in DOMAIN results}
           \cup {likelihoods[d].e + PriorUsed(d).e : d \in TableLabels}
LowExp == CHOOSE e \in Exps : \A f \in Exps : e <= f

RECURSIVE PosteriorSum(_)
PosteriorSum(n) ==
    IF n = 0 THEN 0
    ELSE PosteriorSum(n - 1) + results[n][2].m * Pow2(results[n][2].e - LowExp)

RECURSIVE PriorLikelihoodSum(_)
PriorLikelihoodSum(n) ==
    IF n = 0 THEN 0
    ELSE LET label == disease_data[n].label
         IN  PriorLikelihoodSum(n - 1)
                + PriorUsed(label).m * likelihoods[label].m
                    * Pow2(PriorUsed(label).e + likelihoods[label].e - LowExp)

MaxPrior ==
    CHOOSE p \in {PriorUsed(l) : l \in TableLabels} :
        \A l \in TableLabels : ~FLess(p, PriorUsed(l))

PriorsInUnitInterval ==
    \A l \in TableLabels : FLess(Zero, PriorUsed(l)) /\ FLess(PriorUsed(l), Lit(1, 1))

\* C10: with positive weights and priors in (0, 1), each likelihood lies in
\* [0, 1] and the posteriors diagnose returns sum to at most the largest prior
\* used; without division: the sum of prior_i * likelihood_i is at most
\* max_prior * total_evidence.
C10_PosteriorSumBounded ==
    (pc = "done" /\ disease_data # <<>> /\ AllPositive /\ PriorsInUnitInterval) =>
        /\ \A d \in TableLabels :
              ~FLess(likelihoods[d], Zero) /\ ~FLess(Lit(1, 1), likelihoods[d])
        /\ PosteriorSum(Len(results)) <= MaxPrior.m * Pow2(MaxPrior.e - LowExp)
        /\ PriorLikelihoodSum(NConds)
              <= MaxPrior.m * total_evidence.m
                    * Pow2(MaxPrior.e + total_evidence.e - LowExp)

-----------------------------------------------------------------------------
(* Claim about get_symptom_weights (SpecWeights) *)

TableSymptoms == UNION {SetOf(disease_data[k].symptoms) : k \in DOMAIN disease_data}
ListedBy(s) == {k \in DOMAIN disease_data : s \in SetOf(disease_data[k].symptoms)}

\* C2: get_symptom_weights gives each distinct symptom the weight 1/sqrt(n), n
\* the number of conditions that list it (each list taken as a set); a symptom
\* listed by one condition has count 1 and weight 1.0, also when that
\* condition's list repeats it.
C2_WeightByConditionCount ==
    pc = "done" =>
        /\ DOMAIN weights_out = TableSymptoms
        /\ \A s \in TableSymptoms :
              LET n == Cardinality(ListedBy(s))
              IN  /\ symptom_counts[s] = n
                  /\ weights_out[s] = FDiv(Lit(1, 1), FSqrt(FromInt(n)))
                  /\ n = 1 => weights_out[s] = Lit(1, 1)

====
